---- MODULE Spec2Model ----
(***************************************************************************)
(* Model of Notionsync.py: main() reads its configuration, picks a         *)
(* database connector, fetches records and mirrors each of them to a       *)
(* remote page database (existence query, then create or patch),           *)
(* accumulating a summary and an exit status.                              *)
(***************************************************************************)
EXTENDS Integers, Sequences, FiniteSets, TLC

VARIABLES
    env,               \* os.environ: NOTION_TOKEN, NOTION_DATABASE_ID, DB_TYPE
    dbRows,            \* rows the backing store returns to fetch_records
    remote,            \* the remote database: page id -> properties
    pc,                \* position of main()
    connector,         \* backend of the connector main() obtained
    records,           \* main's `records`
    idx,               \* position of the for-loop of sync_from_database
    existing_page_id,  \* result of check_if_exists (0 is None)
    summary,           \* sync_from_database's `summary`
    exit_code,         \* process exit status (-1 while running)
    run,               \* number of the current invocation of the process
    calls,             \* history: remote calls issued in this run
    failed_at,         \* history: input positions of the entries of error_details
    fetched,           \* history: fetch_records calls in this run
    synced,            \* history: sync_from_database was invoked in this run
    fatal,             \* history: main's top-level handler ran in this run
    prev               \* history: what the previous run did

vars == <<env, dbRows, remote, pc, connector, records, idx, existing_page_id,
          summary, exit_code, run, calls, failed_at, fetched, synced, fatal, prev>>

----------------------------------------------------------------------------
(* Bounds *)

MaxRecords == 2

MaxRuns == 2

----------------------------------------------------------------------------
(* Python values held by a record: None, a str, a datetime.date *)

NoneV == [k |-> "none"]

StrV(s) == [k |-> "str", s |-> s]

DateV(y, m, d) == [k |-> "date", y |-> y, m |-> m, d |-> d]

Pad2(n) == IF n < 10 THEN "0" \o ToString(n) ELSE ToString(n)

\* str(value): a str is itself, a date prints as ISO YYYY-MM-DD
Str(v) ==
    IF v.k = "str" THEN v.s
    ELSE ToString(v.y) \o "-" \o Pad2(v.m) \o "-" \o Pad2(v.d)

\* truth value of a Python value: None and "" are falsy
Truthy(v) ==
    IF v.k = "none" THEN FALSE
    ELSE IF v.k = "str" THEN v.s # ""
    ELSE TRUE

\* dict.get(key): None when the key is absent
Get(data, key) == IF key \in DOMAIN data THEN data[key] ELSE NoneV

\* the environment variable is not set (os.getenv gives None)
Unset == "<unset>"

\* os.getenv(name, default)
GetEnv(e, name, default) == IF e[name] = Unset THEN default ELSE e[name]

----------------------------------------------------------------------------
(* _format_properties *)

property_mapping ==
    << <<"Name", "name", "title">>,
       <<"UID", "uid", "rich_text">>,
       <<"Status", "status", "select">>,
       <<"Reviewer Name", "reviewer_name", "rich_text">>,
       <<"Review Date", "review_date", "date">>,
       <<"Next Follow Up", "next_follow_up", "date">>,
       <<"Date Added", "date_added", "date">>,
       <<"Platform", "platform", "select">>,
       <<"Socials", "socials", "rich_text">> >>

TitleProp(s) == [title |-> <<[text |-> [content |-> s]]>>]

RichTextProp(s) == [rich_text |-> <<[text |-> [content |-> s]]>>]

SelectProp(s) == [select |-> [name |-> s]]

DateProp(s) == [date |-> [start |-> s]]

EmptyDict == [p \in {} |-> NoneV]

\* properties[notion_prop] = value
SetItem(d, key, val) == [p \in (DOMAIN d) \cup {key} |-> IF p = key THEN val ELSE d[p]]

\* dict.update(other)
DictUpdate(d, other) ==
    [p \in (DOMAIN d) \cup (DOMAIN other) |-> IF p \in DOMAIN other THEN other[p] ELSE d[p]]

\* a date property is written whatever the value (the `and value` test dropped)
FormatEntry_NoDateTest(properties, entry, data) ==
    LET value == Get(data, entry[2]) IN
    IF value = NoneV THEN properties
    ELSE IF entry[3] = "title" THEN SetItem(properties, entry[1], TitleProp(Str(value)))
    ELSE IF entry[3] = "rich_text" THEN SetItem(properties, entry[1], RichTextProp(Str(value)))
    ELSE IF entry[3] = "select" THEN SetItem(properties, entry[1], SelectProp(Str(value)))
    ELSE SetItem(properties, entry[1], DateProp(Str(value)))

\* one iteration of the loop over property_mapping
FormatEntry(properties, entry, data) ==
    LET value == Get(data, entry[2]) IN
    IF value = NoneV THEN properties
    ELSE IF entry[3] = "title" THEN SetItem(properties, entry[1], TitleProp(Str(value)))
    ELSE IF entry[3] = "rich_text" THEN SetItem(properties, entry[1], RichTextProp(Str(value)))
    ELSE IF entry[3] = "select" THEN SetItem(properties, entry[1], SelectProp(Str(value)))
    ELSE IF entry[3] = "date" /\ Truthy(value) THEN SetItem(properties, entry[1], DateProp(Str(value)))
    ELSE properties

RECURSIVE FormatFrom(_, _, _)
FormatFrom(properties, i, data) ==
    IF i > Len(property_mapping) THEN properties
    ELSE FormatFrom(FormatEntry(properties, property_mapping[i], data), i + 1, data)

_format_properties(data) == FormatFrom(EmptyDict, 1, data)

----------------------------------------------------------------------------
(* update_page's payload *)

update_fields ==
    <<"status", "platform", "socials", "reviewer_name", "review_date", "next_follow_up">>

\* the whole record is formatted, not only the fields that may change
UpdateField_AllFields(properties, field, data) ==
    DictUpdate(properties, _format_properties(data))

\* one iteration of the loop over update_fields
UpdateField(properties, field, data) ==
    IF field \in DOMAIN data
    THEN DictUpdate(properties, _format_properties((field :> data[field])))
    ELSE properties

RECURSIVE UpdateFrom(_, _, _)
UpdateFrom(properties, i, data) ==
    IF i > Len(update_fields) THEN properties
    ELSE UpdateFrom(UpdateField(properties, update_fields[i], data), i + 1, data)

UpdatePayload(data) == UpdateFrom(EmptyDict, 1, data)

----------------------------------------------------------------------------
(* Inputs *)

Fields ==
    {"uid", "name", "status", "reviewer_name", "review_date", "next_follow_up",
     "date_added", "platform", "socials"}

FullRecord ==
    [uid |-> StrV("u1"), name |-> StrV("Alice"), status |-> StrV("Done"),
     reviewer_name |-> StrV("Bob"), review_date |-> DateV(2024, 1, 5),
     next_follow_up |-> StrV("2024-02-01"), date_added |-> DateV(2023, 12, 31),
     platform |-> StrV("X"), socials |-> StrV("@alice")]

SparseRecord ==
    [uid |-> StrV("u2"), name |-> StrV("Carol"), status |-> StrV("Active"),
     review_date |-> StrV(""), platform |-> NoneV]

NullUidRecord == [uid |-> NoneV, name |-> StrV("Dan"), status |-> StrV("Active")]

NoUidRecord == [name |-> StrV("Eve"), socials |-> StrV("")]

EmptyUidRecord == [uid |-> StrV(""), name |-> StrV("Fay")]

RecordPool == {FullRecord, SparseRecord, NullUidRecord, NoUidRecord, EmptyUidRecord}

RECURSIVE SeqsUpTo(_, _)
SeqsUpTo(S, n) ==
    IF n = 0 THEN {<<>>}
    ELSE LET shorter == SeqsUpTo(S, n - 1) IN
         shorter \cup {Append(s, x) : s \in {t \in shorter : Len(t) = n - 1}, x \in S}

LegacyPage(uid, name) ==
    ("UID" :> RichTextProp(uid)) @@ ("Name" :> TitleProp(name))
      @@ ("Status" :> SelectProp("Old")) @@ ("Date Added" :> DateProp("2020-01-01"))

InitialRemotes ==
    { <<>>,
      <<LegacyPage("u1", "Alice")>>,
      <<LegacyPage("u1", "Alice"), LegacyPage("u2", "Carol")>>,
      <<LegacyPage("u2", "Carol"), LegacyPage("u2", "Carol (copy)")>> }

EnvValues == {Unset, "", "set"}

DbTypes == {Unset, "", "sqlite", "oracle"}

\* str(e) of the exception a failed request raises
ErrorMessages(op) ==
    IF op = "check" THEN {"400 Client Error: Bad Request"}
    ELSE IF op = "create" THEN {"409 Client Error: Conflict"}
    ELSE {"503 Server Error: Service Unavailable"}

----------------------------------------------------------------------------
(* Helpers of the handlers *)

Connectors == {"postgresql", "mysql", "mongodb", "sqlite"}

\* the connectors whose fetch_records returns [] when the driver cannot be imported
OptionalDriver == {"postgresql", "mysql", "mongodb"}

\* `and` written for `or`
CredentialsMissing_Both(notion_token, database_id) ==
    (notion_token = Unset \/ notion_token = "") /\ (database_id = Unset \/ database_id = "")

\* not self.notion_token or not self.database_id
CredentialsMissing(notion_token, database_id) ==
    (notion_token = Unset \/ notion_token = "") \/ (database_id = Unset \/ database_id = "")

EmptySummary == [created |-> 0, updated |-> 0, errors |-> 0, error_details |-> <<>>]

\* only an absent key counts as a missing uid
UidMissing_KeyOnly(record) == "uid" \notin DOMAIN record

\* uid = record.get("uid"); if not uid
UidMissing(record) == ~Truthy(Get(record, "uid"))

\* the counter is not incremented
RecordError_NoCount(s, record, message) ==
    [s EXCEPT !.error_details = Append(@, [record |-> record, error |-> message])]

\* summary["errors"] += 1; summary["error_details"].append({...})
RecordError(s, record, message) ==
    [s EXCEPT !.errors = @ + 1,
              !.error_details = Append(@, [record |-> record, error |-> message])]

\* the counter is incremented even though create_page was called once
IncrCreated_Twice(s) == [s EXCEPT !.created = @ + 2]

\* summary["created"] += 1
IncrCreated(s) == [s EXCEPT !.created = @ + 1]

\* summary["updated"] += 1
IncrUpdated(s) == [s EXCEPT !.updated = @ + 1]

\* the handler breaks out of the loop
ExceptResume_Abort(i) == i + MaxRecords + 1

\* the handler processes the same record again
ExceptResume_Retry(i) == i

\* the except block ends the iteration: the for-loop takes the next record
ExceptResume(i) == i + 1

\* the query ignores the filter's outcome
QueryResults_Nothing(pages, uid) == {}

\* pages whose UID rich-text property equals uid (the remote's answer to the filter)
QueryResults(pages, uid) ==
    {p \in 1..Len(pages) :
        "UID" \in DOMAIN pages[p] /\ uid.k = "str" /\ pages[p]["UID"] = RichTextProp(uid.s)}

\* the status ignores the errors
ExitStatus_Zero(s) == 0

\* if summary['errors'] > 0: sys.exit(1); otherwise main returns
ExitStatus(s) == IF s.errors > 0 THEN 1 ELSE 0

Call(op, rec, ok, page, props, error) ==
    [op |-> op, rec |-> rec, ok |-> ok, page |-> page, props |-> props, error |-> error]

NoPrev == [synced |-> FALSE, records |-> <<>>, failures |-> 0, created |-> 0]

Failures(log) == Cardinality({k \in 1..Len(log) : ~log[k].ok})

----------------------------------------------------------------------------
(* State machine *)

Init ==
    /\ env \in [NOTION_TOKEN : EnvValues, NOTION_DATABASE_ID : EnvValues, DB_TYPE : DbTypes]
    /\ dbRows \in SeqsUpTo(RecordPool, MaxRecords)
    /\ remote \in InitialRemotes
    /\ pc = "init"
    /\ connector = ""
    /\ records = <<>>
    /\ idx = 0
    /\ existing_page_id = 0
    /\ summary = EmptySummary
    /\ exit_code = -1
    /\ run = 1
    /\ calls = <<>>
    /\ failed_at = <<>>
    /\ fetched = 0
    /\ synced = FALSE
    /\ fatal = FALSE
    /\ prev = NoPrev

\* main's `except Exception`: logger.error, sys.exit(1)
FatalExit ==
    /\ pc' = "exited"
    /\ exit_code' = 1
    /\ fatal' = TRUE

\* NotionDatabaseSync() raises ValueError
InitConfigError ==
    /\ pc = "init"
    /\ CredentialsMissing(env.NOTION_TOKEN, env.NOTION_DATABASE_ID)
    /\ FatalExit
    /\ UNCHANGED <<env, dbRows, remote, connector, records, idx, existing_page_id,
                   summary, run, calls, failed_at, fetched, synced, prev>>

\* NotionDatabaseSync() returns the client
InitClient ==
    /\ pc = "init"
    /\ ~CredentialsMissing(env.NOTION_TOKEN, env.NOTION_DATABASE_ID)
    /\ pc' = "connect"
    /\ UNCHANGED <<env, dbRows, remote, connector, records, idx, existing_page_id,
                   summary, exit_code, run, calls, failed_at, fetched, synced, fatal, prev>>

\* db_type as main reads it and get_connector resolves it
ResolvedDbType(e) ==
    LET db_type == GetEnv(e, "DB_TYPE", "postgresql") IN
    IF db_type = "" THEN GetEnv(e, "DB_TYPE", "postgresql") ELSE db_type

\* get_connector raises ValueError
GetConnectorError ==
    /\ pc = "connect"
    /\ ResolvedDbType(env) \notin Connectors
    /\ FatalExit
    /\ UNCHANGED <<env, dbRows, remote, connector, records, idx, existing_page_id,
                   summary, run, calls, failed_at, fetched, synced, prev>>

\* get_connector returns a connector
GetConnector ==
    /\ pc = "connect"
    /\ ResolvedDbType(env) \in Connectors
    /\ connector' = ResolvedDbType(env)
    /\ pc' = "fetch"
    /\ UNCHANGED <<env, dbRows, remote, records, idx, existing_page_id,
                   summary, exit_code, run, calls, failed_at, fetched, synced, fatal, prev>>

\* main after fetch_records returned rows: nothing to do, or enter sync_from_database
AfterFetch(rows) ==
    /\ records' = rows
    /\ fetched' = fetched + 1
    /\ IF rows = <<>>
       THEN /\ pc' = "exited"
            /\ exit_code' = 0
            /\ UNCHANGED <<idx, summary, synced>>
       ELSE /\ pc' = "loop"
            /\ idx' = 1
            /\ summary' = EmptySummary
            /\ synced' = TRUE
            /\ UNCHANGED exit_code
    /\ UNCHANGED <<env, dbRows, remote, connector, existing_page_id, run, calls,
                   failed_at, fatal, prev>>

\* fetch_records returns the rows of the backing store
FetchRecords ==
    /\ pc = "fetch"
    /\ AfterFetch(dbRows)

\* fetch_records cannot import its driver and returns []
FetchDriverMissing ==
    /\ pc = "fetch"
    /\ connector \in OptionalDriver
    /\ AfterFetch(<<>>)

\* fetch_records raises (connection refused, bad query)
FetchRaises ==
    /\ pc = "fetch"
    /\ fetched' = fetched + 1
    /\ FatalExit
    /\ UNCHANGED <<env, dbRows, remote, connector, records, idx, existing_page_id,
                   summary, run, calls, failed_at, synced, prev>>

\* the loop's current record
Record == records[idx]

\* `if not uid`: counted as an error, no remote call, `continue`
MissingUid ==
    /\ pc = "loop"
    /\ idx <= Len(records)
    /\ UidMissing(Record)
    /\ summary' = RecordError(summary, Record, "Missing UID")
    /\ failed_at' = Append(failed_at, idx)
    /\ idx' = idx + 1
    /\ UNCHANGED <<env, dbRows, remote, pc, connector, records, existing_page_id,
                   exit_code, run, calls, fetched, synced, fatal, prev>>

\* sync_from_database's `except Exception` after a remote call of `op` raised
HandleException(op, page, props, message) ==
    /\ calls' = Append(calls, Call(op, idx, FALSE, page, props, message))
    /\ summary' = RecordError(summary, Record, message)
    /\ failed_at' = Append(failed_at, idx)
    /\ idx' = ExceptResume(idx)
    /\ pc' = "loop"
    /\ existing_page_id' = 0
    /\ UNCHANGED <<env, dbRows, remote, connector, records, exit_code, run,
                   fetched, synced, fatal, prev>>

\* check_if_exists returns the id of a matching page
CheckFound ==
    /\ pc = "loop"
    /\ idx <= Len(records)
    /\ ~UidMissing(Record)
    /\ \E p \in QueryResults(remote, Get(Record, "uid")) :
          /\ existing_page_id' = p
          /\ calls' = Append(calls, Call("check", idx, TRUE, p, EmptyDict, ""))
    /\ pc' = "update"
    /\ UNCHANGED <<env, dbRows, remote, connector, records, idx, summary, exit_code,
                   run, failed_at, fetched, synced, fatal, prev>>

\* check_if_exists finds no page and returns None
CheckNotFound ==
    /\ pc = "loop"
    /\ idx <= Len(records)
    /\ ~UidMissing(Record)
    /\ QueryResults(remote, Get(Record, "uid")) = {}
    /\ existing_page_id' = 0
    /\ calls' = Append(calls, Call("check", idx, TRUE, 0, EmptyDict, ""))
    /\ pc' = "create"
    /\ UNCHANGED <<env, dbRows, remote, connector, records, idx, summary, exit_code,
                   run, failed_at, fetched, synced, fatal, prev>>

\* check_if_exists raises: the request failed
CheckRaises ==
    /\ pc = "loop"
    /\ idx <= Len(records)
    /\ ~UidMissing(Record)
    /\ \E message \in ErrorMessages("check") : HandleException("check", 0, EmptyDict, message)

\* update_page patches the page; summary["updated"] += 1
UpdatePage ==
    /\ pc = "update"
    /\ LET properties == UpdatePayload(Record) IN
          /\ remote' = [remote EXCEPT ![existing_page_id] = DictUpdate(@, properties)]
          /\ calls' = Append(calls, Call("update", idx, TRUE, existing_page_id, properties, ""))
    /\ summary' = IncrUpdated(summary)
    /\ idx' = idx + 1
    /\ pc' = "loop"
    /\ existing_page_id' = 0
    /\ UNCHANGED <<env, dbRows, connector, records, exit_code, run, failed_at,
                   fetched, synced, fatal, prev>>

\* update_page raises: the request failed
UpdateRaises ==
    /\ pc = "update"
    /\ \E message \in ErrorMessages("update") :
          HandleException("update", existing_page_id, UpdatePayload(Record), message)

\* create_page posts the page; summary["created"] += 1
CreatePage ==
    /\ pc = "create"
    /\ LET properties == _format_properties(Record) IN
          /\ remote' = Append(remote, properties)
          /\ calls' = Append(calls, Call("create", idx, TRUE, Len(remote) + 1, properties, ""))
    /\ summary' = IncrCreated(summary)
    /\ idx' = idx + 1
    /\ pc' = "loop"
    /\ UNCHANGED <<env, dbRows, connector, records, existing_page_id, exit_code, run,
                   failed_at, fetched, synced, fatal, prev>>

\* create_page raises: the request failed
CreateRaises ==
    /\ pc = "create"
    /\ \E message \in ErrorMessages("create") :
          HandleException("create", 0, _format_properties(Record), message)

\* the loop is over: sync_from_database returns, main prints the summary and exits
Report ==
    /\ pc = "loop"
    /\ idx > Len(records)
    /\ pc' = "exited"
    /\ exit_code' = ExitStatus(summary)
    /\ UNCHANGED <<env, dbRows, remote, connector, records, idx, existing_page_id,
                   summary, run, calls, failed_at, fetched, synced, fatal, prev>>

\* the process is started again (a scheduler's next run) on the same configuration
Rerun ==
    /\ pc = "exited"
    /\ run < MaxRuns
    /\ run' = run + 1
    /\ prev' = [synced |-> synced, records |-> records, failures |-> Failures(calls),
                created |-> summary.created]
    /\ pc' = "init"
    /\ connector' = ""
    /\ records' = <<>>
    /\ idx' = 0
    /\ existing_page_id' = 0
    /\ summary' = EmptySummary
    /\ exit_code' = -1
    /\ calls' = <<>>
    /\ failed_at' = <<>>
    /\ fetched' = 0
    /\ synced' = FALSE
    /\ fatal' = FALSE
    /\ UNCHANGED <<env, dbRows, remote>>

Next ==
    \/ InitConfigError
    \/ InitClient
    \/ GetConnectorError
    \/ GetConnector
    \/ FetchRecords
    \/ FetchDriverMissing
    \/ FetchRaises
    \/ MissingUid
    \/ CheckFound
    \/ CheckNotFound
    \/ CheckRaises
    \/ UpdatePage
    \/ UpdateRaises
    \/ CreatePage
    \/ CreateRaises
    \/ Report
    \/ Rerun

Spec == Init /\ [][Next]_vars

----------------------------------------------------------------------------
(* Vocabulary of the properties *)

\* positions in the call history of the calls `op` made for input record i
CallsOf(op, i) == {k \in 1..Len(calls) : calls[k].op = op /\ calls[k].rec = i}

\* positions of the calls `op` that returned normally
OkCalls(op) == {k \in 1..Len(calls) : calls[k].op = op /\ calls[k].ok}

MutationsOf(i) == CallsOf("create", i) \cup CallsOf("update", i)

\* the loop is done with input record i
Resolved(i) == synced /\ (i < idx \/ pc = "exited")

CheckedNone(i) == \E k \in CallsOf("check", i) : calls[k].ok /\ calls[k].page = 0

CheckedFound(i) == \E k \in CallsOf("check", i) : calls[k].ok /\ calls[k].page # 0

Inputs == 1..Len(records)

MutableProps ==
    {"Status", "Platform", "Socials", "Reviewer Name", "Review Date", "Next Follow Up"}

----------------------------------------------------------------------------
(* C1 *)

\* C1 (as stated): every record whose existence check found no page gets exactly
\* one create_page call and adds exactly 1 to created.
C1_Original ==
    /\ \A i \in Inputs :
          Resolved(i) /\ CheckedNone(i) => Cardinality(CallsOf("create", i)) = 1
    /\ synced => summary.created = Cardinality({i \in Inputs : Resolved(i) /\ CheckedNone(i)})

\* C1 (amended): every record whose existence check found no page gets exactly one
\* create_page call, create_page is called for no other record, and created counts
\* exactly the create_page calls that returned: a create that raises adds nothing.
C1_CreateOnce ==
    /\ \A i \in Inputs :
          Resolved(i) /\ CheckedNone(i) => Cardinality(CallsOf("create", i)) = 1
    /\ \A k \in 1..Len(calls) :
          calls[k].op = "create" =>
             /\ CheckedNone(calls[k].rec)
             /\ Get(records[calls[k].rec], "uid") # NoneV
    /\ summary.created = Cardinality(OkCalls("create"))

C1_Witness ==
    /\ pc = "exited"
    /\ \E i, j \in Inputs :
          /\ CheckedNone(i) /\ CheckedNone(j)
          /\ \E k \in CallsOf("create", i) : calls[k].ok
          /\ \E k \in CallsOf("create", j) : ~calls[k].ok
    /\ summary.created = 1

----------------------------------------------------------------------------
(* C2 *)

----------------------------------------------------------------------------
(* C3 *)

\* C3: a record whose uid is null or absent causes no remote call, adds exactly 1
\* to errors and appends one "Missing UID" entry to error_details.
C3_MissingUid ==
    /\ \A i \in Inputs :
          Resolved(i) /\ Get(records[i], "uid") = NoneV =>
             /\ \A k \in 1..Len(calls) : calls[k].rec # i
             /\ Cardinality({j \in 1..Len(failed_at) : failed_at[j] = i}) = 1
             /\ \A j \in 1..Len(failed_at) :
                   failed_at[j] = i =>
                      summary.error_details[j] = [record |-> records[i], error |-> "Missing UID"]
    /\ summary.errors = Len(failed_at)
    /\ Len(summary.error_details) = Len(failed_at)

C3_Witness ==
    /\ pc = "exited"
    /\ records = <<NullUidRecord, NoUidRecord>>
    /\ summary.errors = 2
    /\ calls = <<>>

----------------------------------------------------------------------------
(* C4 *)

\* C4: a record whose existence check, create or update raised is counted as one
\* error carrying the exception's message, is counted neither as created nor as
\* updated, gets no further call, and the loop goes on: when sync_from_database
\* has returned, every record of the input was visited.
C4_PartialFailure ==
    /\ \A k \in 1..Len(calls) :
          ~calls[k].ok =>
             LET i == calls[k].rec IN
             /\ Cardinality({j \in 1..Len(failed_at) : failed_at[j] = i}) = 1
             /\ \A j \in 1..Len(failed_at) :
                   failed_at[j] = i =>
                      summary.error_details[j] = [record |-> records[i], error |-> calls[k].error]
             /\ \A m \in MutationsOf(i) : ~calls[m].ok
             /\ \A m \in 1..Len(calls) : calls[m].rec = i => m <= k
    /\ summary.created + summary.updated =
          Cardinality({i \in Inputs : \E m \in MutationsOf(i) : calls[m].ok})
    /\ pc = "exited" /\ synced =>
          /\ exit_code \in {0, 1}
          /\ \A i \in Inputs :
                \/ \E j \in 1..Len(failed_at) : failed_at[j] = i
                \/ \E m \in MutationsOf(i) : calls[m].ok

C4_Witness ==
    /\ pc = "exited"
    /\ Len(records) = 2
    /\ \E k \in CallsOf("check", 1) : ~calls[k].ok
    /\ \E m \in MutationsOf(2) : calls[m].ok
    /\ summary.errors = 1

----------------------------------------------------------------------------
(* C5 *)

\* the previous run synced the same records
SameRecordsAgain == run >= 2 /\ prev.synced /\ synced /\ prev.records = records

----------------------------------------------------------------------------
(* C6 *)

\* C6: per record and run there is at most one existence check and at most one
\* mutation (create or update, never both); a mutation follows the record's
\* successful check; nothing is called again for a record after a call failed; one
\* record's calls are all made before the next record's.
C6_AtMostOnce ==
    /\ \A i \in Inputs :
          /\ Cardinality(CallsOf("check", i)) <= 1
          /\ Cardinality(MutationsOf(i)) <= 1
          /\ \A m \in MutationsOf(i) : \E c \in CallsOf("check", i) : c < m /\ calls[c].ok
    /\ \A k \in 1..Len(calls) :
          /\ calls[k].rec \in Inputs
          /\ ~calls[k].ok => \A m \in 1..Len(calls) : calls[m].rec = calls[k].rec => m <= k
          /\ \A m \in 1..Len(calls) : m < k => calls[m].rec <= calls[k].rec

C6_Witness ==
    /\ pc = "exited"
    /\ Len(calls) = 3
    /\ calls[1].op = "check" /\ calls[1].rec = 1 /\ calls[1].ok
    /\ calls[2].op = "update" /\ calls[2].rec = 1 /\ ~calls[2].ok
    /\ calls[3].op = "check" /\ calls[3].rec = 2 /\ ~calls[3].ok

----------------------------------------------------------------------------
(* C7 *)

\* C7: the process exits non-zero exactly when a record failed or the top-level
\* handler ran; on an empty record set it exits zero without a remote call and
\* without invoking sync_from_database.
C7_ExitStatus ==
    pc = "exited" =>
       /\ exit_code \in {0, 1}
       /\ exit_code # 0 <=> (fatal \/ (synced /\ summary.errors > 0))
       /\ ~fatal /\ fetched > 0 /\ records = <<>> =>
             exit_code = 0 /\ calls = <<>> /\ ~synced

C7_Witness ==
    /\ pc = "exited"
    /\ run = 2
    /\ ~fatal
    /\ exit_code = 1
    /\ summary.updated = 1
    /\ summary.errors = 1
    /\ records[2] = NoUidRecord

----------------------------------------------------------------------------
(* C8 *)

\* the token or database id is missing, or the backend selector names no connector
ConfigurationError ==
    \/ env.NOTION_TOKEN \in {Unset, ""}
    \/ env.NOTION_DATABASE_ID \in {Unset, ""}
    \/ env.DB_TYPE \notin {Unset, "postgresql", "mysql", "mongodb", "sqlite"}

\* C8: under a configuration error the process never gets to fetch a record or to
\* make a remote call, and when it has exited its status is 1.
C8_ConfigFatal ==
    ConfigurationError =>
       /\ pc \in {"init", "connect", "exited"}
       /\ fetched = 0
       /\ calls = <<>>
       /\ ~synced
       /\ pc = "exited" => exit_code = 1 /\ fatal

C8_Witness ==
    /\ pc = "exited"
    /\ exit_code = 1
    /\ env.NOTION_TOKEN = "set"
    /\ env.NOTION_DATABASE_ID = "set"
    /\ env.DB_TYPE = "oracle"
    /\ dbRows # <<>>

----------------------------------------------------------------------------
(* C9 *)

\* the record holds a value the mapping entry serializes
Included(entry, data) ==
    /\ Get(data, entry[2]) # NoneV
    /\ entry[3] = "date" => Get(data, entry[2]) # StrV("")

Shape(kind, text) ==
    IF kind = "title" THEN [title |-> <<[text |-> [content |-> text]]>>]
    ELSE IF kind = "rich_text" THEN [rich_text |-> <<[text |-> [content |-> text]]>>]
    ELSE IF kind = "select" THEN [select |-> [name |-> text]]
    ELSE [date |-> [start |-> text]]

MappingEntries == {property_mapping[e] : e \in 1..Len(property_mapping)}

Mapped(data, properties) ==
    /\ DOMAIN properties = {entry[1] : entry \in {e \in MappingEntries : Included(e, data)}}
    /\ \A entry \in MappingEntries :
          Included(entry, data) =>
             properties[entry[1]] = Shape(entry[3], Str(Get(data, entry[2])))

\* the part of a record update_page hands to _format_properties, field by field
MutablePart(data) ==
    [f \in {g \in DOMAIN data : \E e \in 1..Len(update_fields) : update_fields[e] = g} |-> data[f]]

\* C9: the formatted properties of a record hold a property exactly for the mapping
\* entries whose field is non-null (and, for a date, non-empty), each in the one
\* shape of its kind; {status: "Active"} gives exactly the Status select.
C9_FormatProperties ==
    \A k \in 1..Len(calls) :
       /\ calls[k].op = "create" => Mapped(records[calls[k].rec], calls[k].props)
       /\ calls[k].op = "update" => Mapped(MutablePart(records[calls[k].rec]), calls[k].props)
       /\ (calls[k].op = "update" /\ records[calls[k].rec] = SparseRecord) =>
             calls[k].props = ("Status" :> [select |-> [name |-> "Active"]])

C9_Witness ==
    /\ \E k \in 1..Len(calls) :
          /\ calls[k].op = "create"
          /\ records[calls[k].rec] = SparseRecord
          /\ DOMAIN calls[k].props = {"Name", "UID", "Status"}
    /\ \E k \in 1..Len(calls) :
          /\ calls[k].op = "update"
          /\ calls[k].props = ("Status" :> [select |-> [name |-> "Active"]])

----------------------------------------------------------------------------
(* C10 *)

\* records the loop is done with
Processed == idx - 1

\* C10: while sync_from_database runs and after it, created + updated + errors is
\* the number of records processed so far, error_details has errors entries, and
\* they are the failed records in input order; at return the counters sum to the
\* length of the input.
C10_Accounting ==
    synced =>
       /\ summary.created + summary.updated + summary.errors = Processed
       /\ Len(summary.error_details) = summary.errors
       /\ Len(failed_at) = summary.errors
       /\ \A j \in 1..Len(failed_at) :
             /\ failed_at[j] \in Inputs
             /\ summary.error_details[j].record = records[failed_at[j]]
             /\ \A m \in 1..Len(failed_at) : m < j => failed_at[m] < failed_at[j]
       /\ pc = "exited" =>
             summary.created + summary.updated + summary.errors = Len(records)

C10_Witness ==
    /\ pc = "exited"
    /\ records = <<EmptyUidRecord, FullRecord>>
    /\ summary.errors = 2
    /\ summary.error_details[1].error = "Missing UID"
    /\ summary.error_details[2].error = "503 Server Error: Service Unavailable"

====
